---- MODULE Spec2Model ----
(***************************************************************************)
(* DeepChat (src/app/main.py): a Streamlit script.  Streamlit executes     *)
(* main() from the top once when the page is opened and once more for      *)
(* every widget interaction (and for st.rerun()); st.session_state is the  *)
(* only state that survives from one run to the next.  A run is modelled   *)
(* step by step: pc is the position of the running script, "idle" means    *)
(* the script has finished and the rendered widgets wait for the user.     *)
(*                                                                         *)
(* Floats are scaled by 100 (temperature 0.7 is 70); num_predict is an     *)
(* integer and is kept as it is.                                           *)
(***************************************************************************)
EXTENDS Integers, Sequences, FiniteSets, TLC

VARIABLES
    pc,             \* position of the script run
    event,          \* the widget interaction that triggered this run
    server_status,  \* main(): result of ollama.list()
    verdict,        \* outcome of Phase 1 / Phase 2 of this run
    initialized,    \* "messages" and "params" are keys of st.session_state
    messages,       \* st.session_state.messages
    params,         \* st.session_state.params
    request,        \* the ollama.chat call in flight
    listCalls,      \* ollama.list calls made by this run
    chatCalls,      \* ollama.chat calls made by this run
    response,       \* handle_query(): result of ollama.chat()
    before,         \* history: the transcript when the turn was submitted
    outcome,        \* history: how the turn of this run ended
    failedBefore,   \* history: the transcript the failed turn of the previous
                    \* run was submitted on (recorded by SpecRecovery only)
    probe           \* src/app/utils.py: a call of validate_model_available

vars == <<pc, event, server_status, verdict, initialized, messages, params,
          request, listCalls, chatCalls, response, before, outcome,
          failedBefore, probe>>

----------------------------------------------------------------------------
(* Bounds of the model *)

\* exchanges a transcript holds before the user stops submitting prompts
MaxTurns == 2
\* longest model list the server returns
MaxModels == 1

----------------------------------------------------------------------------
(* Values *)

\* Python's None
NoneVal == "<None>"

REQUIRED_MODEL == "deepseek-r1:1.5b"

\* the greetings, without the emoji that ends both of them
INIT_GREETING == "How can I help you today?"

RESET_GREETING == "How can I help you with coding today?"

\* model names a server may report: the required one, the same in another
\* case, and another model
ModelNames == {"deepseek-r1:1.5b", "DeepSeek-R1:1.5B", "llama2"}

\* what st.chat_input can hand to the script when the user submits
Prompts == {"", " ", "hi"}

\* reply texts of the model server
Replies == {"ok"}

ParamNames == {"temperature", "top_p", "num_predict", "repeat_penalty"}

DEFAULT_PARAMS ==
    [temperature |-> 70, top_p |-> 90, num_predict |-> 512, repeat_penalty |-> 110]
SliderMinBelowRange(name) ==
    CASE name = "temperature" -> 0
      [] name = "top_p" -> 0
      [] name = "num_predict" -> 128
      [] name = "repeat_penalty" -> 100

\* first bound passed to st.slider
SliderMin(name) ==
    CASE name = "temperature" -> 0
      [] name = "top_p" -> 10
      [] name = "num_predict" -> 128
      [] name = "repeat_penalty" -> 100

\* second bound passed to st.slider
SliderMax(name) ==
    CASE name = "temperature" -> 100
      [] name = "top_p" -> 100
      [] name = "num_predict" -> 2048
      [] name = "repeat_penalty" -> 200

\* the positions the user drags a slider to: one end of its track, the low
\* end for top_p and repeat_penalty and the high end for the other two
SliderStops(name) ==
    IF name \in {"top_p", "repeat_penalty"}
    THEN {SliderMin(name)}
    ELSE {SliderMax(name)}

NoEvent == [kind |-> "none"]

Events ==
    {[kind |-> "chat", prompt |-> p] : p \in Prompts}
    \cup {[kind |-> "clear"]}
    \cup UNION {{[kind |-> "slider", name |-> n, value |-> v] : v \in SliderStops(n)}
                : n \in ParamNames}

NoStatus == [unbound |-> TRUE]

NoRequest == [idle |-> TRUE]

NoResponse == [unbound |-> TRUE]

\* st.session_state before initialize_session() has run: no "params" key
NoParams == [n \in {} |-> 0]

\* validate_model_available is not being called
NoProbe == [pc |-> "none"]

UserMessage(text) == [role |-> "user", content |-> text]
AssistantMessageAsUser(text) == [role |-> "user", content |-> text]

AssistantMessage(text) == [role |-> "assistant", content |-> text]

----------------------------------------------------------------------------
(* Responses of the model server *)

\* an entry of the model list: a dict that may or may not have the keys
\* 'model' and 'name'
ModelEntries ==
    {[x \in {} |-> NoneVal]}
    \cup {[model |-> a] : a \in ModelNames}
    \cup {[name |-> b] : b \in ModelNames}
    \cup {[model |-> a, name |-> b] : a \in ModelNames, b \in ModelNames}

RECURSIVE SeqsUpTo(_, _)
SeqsUpTo(S, n) ==
    IF n = 0 THEN {<<>>}
    ELSE LET shorter == SeqsUpTo(S, n - 1)
         IN  shorter \cup {Append(s, x) : s \in {t \in shorter : Len(t) = n - 1}, x \in S}

\* what ollama.list() may return: a response with a model list, or one
\* without the 'models' key (one of them lists the model under another key)
ListResponses ==
    {[models |-> l] : l \in SeqsUpTo(ModelEntries, MaxModels)}
    \cup {[error |-> "unexpected"]}
    \cup {[tags |-> <<[name |-> REQUIRED_MODEL]>>]}

\* what ollama.chat() may return: well formed, without 'message', or with a
\* 'message' that has no 'content'
ChatResponses ==
    {[message |-> AssistantMessage(r)] : r \in Replies}
    \cup {[message |-> [role |-> "assistant"]]}
    \cup {[done |-> TRUE]}

----------------------------------------------------------------------------
(* Pure parts of the script *)

\* dict.get(key): the value, or None when the key is absent
Get(d, key) == IF key \in DOMAIN d THEN d[key] ELSE NoneVal
ModelFoundByModelFieldOnly(models) ==
    \E i \in 1..Len(models) : Get(models[i], "model") = REQUIRED_MODEL

\* any(m.get('model') == ... or m.get('name') == ... for m in models)
ModelFound(models) ==
    \E i \in 1..Len(models) :
        \/ Get(models[i], "model") = REQUIRED_MODEL
        \/ Get(models[i], "name") = REQUIRED_MODEL

ModelVerificationWithoutShapeCheck(status) ==
    IF "models" \notin DOMAIN status THEN "ModelMissing"
    ELSE IF ~ModelFound(status["models"]) THEN "ModelMissing"
    ELSE "Ready"

\* Phase 2 of main(): the verdict on a response that ollama.list() returned
ModelVerification(status) ==
    IF "models" \notin DOMAIN status THEN "ProtocolMismatch"
    ELSE IF ~ModelFound(status["models"]) THEN "ModelMissing"
    ELSE "Ready"
AfterVerdictNeverStops(v) == "phase3"

\* st.stop() ends the run unless the model was found
AfterVerdict(v) == IF v = "Ready" THEN "phase3" ELSE "stopped"

\* `if prompt := st.chat_input(...)`: None and the empty string are falsy
Truthy(prompt) == prompt # NoneVal /\ prompt # ""

\* 'message' not in response or 'content' not in response['message']
InvalidResponse(r) ==
    \/ "message" \notin DOMAIN r
    \/ "content" \notin DOMAIN r["message"]
PopNothing(msgs) == msgs

\* list.pop(): the list without its last entry
Pop(msgs) == SubSeq(msgs, 1, Len(msgs) - 1)

SliderFromDefault(name, value) ==
    IF event.kind = "slider" /\ event.name = name
    THEN event.value
    ELSE DEFAULT_PARAMS[name]

\* the value st.slider returns for the parameter `name` in this run: the
\* position the user dragged it to, or else the value it was given
Slider(name, value) ==
    IF event.kind = "slider" /\ event.name = name THEN event.value ELSE value
ResetKeepsFirst(msgs) == <<msgs[1]>>

\* the transcript the "Clear Chat History" button stores
ResetTranscript(msgs) == <<AssistantMessage(RESET_GREETING)>>

OptionsDefault(p) == DEFAULT_PARAMS

\* options= of the ollama.chat call
Options(p) == p

----------------------------------------------------------------------------
(* The state when the page is opened: nothing in st.session_state, the     *)
(* script about to run.                                                    *)

Init ==
    /\ pc = "start"
    /\ event = NoEvent
    /\ server_status = NoStatus
    /\ verdict = NoneVal
    /\ initialized = FALSE
    /\ messages = <<>>
    /\ params = NoParams
    /\ request = NoRequest
    /\ listCalls = 0
    /\ chatCalls = 0
    /\ response = NoResponse
    /\ before = <<>>
    /\ outcome = "none"
    /\ failedBefore = <<>>
    /\ probe = NoProbe

session == <<initialized, messages, params>>

history == <<response, before, outcome>>

\* what no step of main() touches
aux == <<failedBefore, probe>>

----------------------------------------------------------------------------
(* Phase 1: ollama.list() *)

ListReturns(status) ==
    /\ pc = "start"
    /\ listCalls' = listCalls + 1
    /\ server_status' = status
    /\ pc' = "phase2"
    /\ UNCHANGED aux
    /\ UNCHANGED <<event, verdict, session, request, chatCalls, history>>
ListRaisesRetry ==
    /\ pc = "start"
    /\ listCalls < 2
    /\ listCalls' = listCalls + 1
    /\ UNCHANGED aux
    /\ UNCHANGED <<pc, event, server_status, verdict, session, request, chatCalls,
                   history>>

\* ollama.list() raises: st.error and st.stop()
ListRaises ==
    /\ pc = "start"
    /\ listCalls' = listCalls + 1
    /\ verdict' = "ServerUnreachable"
    /\ pc' = "stopped"
    /\ UNCHANGED aux
    /\ UNCHANGED <<event, server_status, session, request, chatCalls, history>>

(* Phase 2: model verification *)

Phase2 ==
    /\ pc = "phase2"
    /\ verdict' = ModelVerification(server_status)
    /\ pc' = AfterVerdict(verdict')
    /\ UNCHANGED aux
    /\ UNCHANGED <<event, server_status, session, request, listCalls, chatCalls,
                   history>>

----------------------------------------------------------------------------
(* Phase 3: the application *)

\* server_status is not read after Phase 2 and is dropped here
InitializeSession ==
    /\ pc = "phase3"
    /\ IF initialized
       THEN UNCHANGED <<messages, params>>
       ELSE /\ messages' = <<AssistantMessage(INIT_GREETING)>>
            /\ params' = DEFAULT_PARAMS
    /\ initialized' = TRUE
    /\ server_status' = NoStatus
    /\ pc' = "sidebar"
    /\ UNCHANGED aux
    /\ UNCHANGED <<event, verdict, request, listCalls, chatCalls, history>>

\* the four sliders, then the button; st.rerun() starts the script again
SettingsSidebar ==
    /\ pc = "sidebar"
    /\ params' = [n \in ParamNames |-> Slider(n, params[n])]
    /\ IF event.kind = "clear"
       THEN /\ messages' = ResetTranscript(messages)
            /\ event' = NoEvent
            /\ verdict' = NoneVal
            /\ listCalls' = 0
            /\ chatCalls' = 0
            /\ pc' = "start"
       ELSE /\ pc' = "query"
            /\ UNCHANGED <<messages, event, verdict, listCalls, chatCalls>>
    /\ UNCHANGED aux
    /\ UNCHANGED <<server_status, initialized, request, history>>

HandleQueryAppendsAfterCall ==
    /\ pc = "query"
    /\ LET prompt == IF event.kind = "chat" THEN event.prompt ELSE NoneVal
       IN  IF Truthy(prompt)
           THEN /\ before' = messages
                /\ UNCHANGED response
                /\ UNCHANGED messages
                /\ request' = [model |-> REQUIRED_MODEL,
                               messages |-> Append(messages, UserMessage(prompt)),
                               stream |-> FALSE,
                               options |-> Options(params)]
                /\ chatCalls' = chatCalls + 1
                /\ pc' = "chatting"
                /\ UNCHANGED outcome
           ELSE /\ pc' = "idle"
                /\ UNCHANGED <<messages, request, chatCalls, history>>
    /\ UNCHANGED aux
    /\ UNCHANGED <<event, server_status, verdict, initialized, params, listCalls>>

\* display_chat() only renders; handle_query() up to the ollama.chat call
HandleQuery ==
    /\ pc = "query"
    /\ LET prompt == IF event.kind = "chat" THEN event.prompt ELSE NoneVal
       IN  IF Truthy(prompt)
           THEN /\ before' = messages
                /\ UNCHANGED response
                /\ messages' = Append(messages, UserMessage(prompt))
                /\ request' = [model |-> REQUIRED_MODEL,
                               messages |-> messages',
                               stream |-> FALSE,
                               options |-> Options(params)]
                /\ chatCalls' = chatCalls + 1
                /\ pc' = "chatting"
                /\ UNCHANGED outcome
           ELSE /\ pc' = "idle"
                /\ UNCHANGED <<messages, request, chatCalls, history>>
    /\ UNCHANGED aux
    /\ UNCHANGED <<event, server_status, verdict, initialized, params, listCalls>>
ChatReturnsDefaulting(r) ==
    /\ pc = "chatting"
    /\ response' = r
    /\ LET reply == IF InvalidResponse(r) THEN "" ELSE r["message"]["content"]
       IN  messages' = Append(messages, AssistantMessage(reply))
    /\ outcome' = "ok"
    /\ request' = NoRequest
    /\ pc' = "idle"
    /\ UNCHANGED aux
    /\ UNCHANGED <<event, server_status, verdict, initialized, params, listCalls,
                   chatCalls, before>>

\* ollama.chat returns: validate, then store the reply, or raise ValueError
\* into the handler that pops the last message
ChatReturns(r) ==
    /\ pc = "chatting"
    /\ response' = r
    /\ IF InvalidResponse(r)
       THEN /\ messages' = Pop(messages)
            /\ outcome' = "failed"
       ELSE /\ messages' = Append(messages, AssistantMessage(r["message"]["content"]))
            /\ outcome' = "ok"
    /\ request' = NoRequest
    /\ pc' = "idle"
    /\ UNCHANGED aux
    /\ UNCHANGED <<event, server_status, verdict, initialized, params, listCalls,
                   chatCalls, before>>
ChatRaisesRetry ==
    /\ pc = "chatting"
    /\ chatCalls < 2
    /\ chatCalls' = chatCalls + 1
    /\ UNCHANGED aux
    /\ UNCHANGED <<pc, event, server_status, verdict, session, request, listCalls,
                   history>>

\* ollama.chat raises: the handler pops the last message
ChatRaises ==
    /\ pc = "chatting"
    /\ messages' = Pop(messages)
    /\ outcome' = "failed"
    /\ request' = NoRequest
    /\ pc' = "idle"
    /\ UNCHANGED aux
    /\ UNCHANGED <<event, server_status, verdict, initialized, params, listCalls,
                   chatCalls, response, before>>

----------------------------------------------------------------------------
(* The user acts on a rendered widget: Streamlit runs the script again.    *)
(* Widgets exist only when the last run reached the end of main().         *)

Interact(e) ==
    /\ pc = "idle"
    /\ e.kind = "chat" /\ Truthy(e.prompt) => Len(messages) < 2 * MaxTurns + 1
    /\ event' = e
    /\ verdict' = NoneVal
    /\ listCalls' = 0
    /\ chatCalls' = 0
    /\ response' = NoResponse
    /\ before' = <<>>
    /\ outcome' = "none"
    /\ pc' = "start"
    /\ UNCHANGED aux
    /\ UNCHANGED <<server_status, session, request>>

\* the same step, recording whether the run that just ended was a failed turn
InteractTracked(e) ==
    /\ pc = "idle"
    /\ e.kind = "chat" /\ Truthy(e.prompt) => Len(messages) < 2 * MaxTurns + 1
    /\ event' = e
    /\ verdict' = NoneVal
    /\ listCalls' = 0
    /\ chatCalls' = 0
    /\ response' = NoResponse
    /\ before' = <<>>
    /\ outcome' = "none"
    /\ pc' = "start"
    /\ failedBefore' = IF outcome = "failed" THEN before ELSE <<>>
    /\ UNCHANGED probe
    /\ UNCHANGED <<server_status, session, request>>

Next ==
    \/ \E status \in ListResponses : ListReturns(status)
    \/ ListRaises
    \/ Phase2
    \/ InitializeSession
    \/ SettingsSidebar
    \/ HandleQuery
    \/ \E r \in ChatResponses : ChatReturns(r)
    \/ ChatRaises
    \/ \E e \in Events : Interact(e)

Spec == Init /\ [][Next]_vars

\* the script with the failed turn of the previous run on record
NextRecovery ==
    \/ \E status \in ListResponses : ListReturns(status)
    \/ ListRaises
    \/ Phase2
    \/ InitializeSession
    \/ SettingsSidebar
    \/ HandleQuery
    \/ \E r \in ChatResponses : ChatReturns(r)
    \/ ChatRaises
    \/ \E e \in Events : InteractTracked(e)

SpecRecovery == Init /\ [][NextRecovery]_vars

----------------------------------------------------------------------------
(* Properties of the chat turn *)

FailedVerdicts == {"ServerUnreachable", "ProtocolMismatch", "ModelMissing"}

\* the text the user submitted in this run
SubmittedText == IF event.kind = "chat" THEN event.prompt ELSE NoneVal

\* C1: after a failed turn (ollama.chat raised, or its response failed the
\* validation) the transcript equals, entry by entry, the transcript the
\* turn was submitted on.
C1_FailedTurnRestoresTranscript ==
    outcome = "failed" => messages = before

\* a turn failed on a transcript that already held a completed exchange
C1_Witness ==
    /\ outcome = "failed"
    /\ Len(before) = 3
    /\ before[2].role = "user"

\* C2: after a successful turn with text t and reply r the transcript is the
\* pre-turn transcript followed by {user, t} and {assistant, r}.
C2_SuccessfulTurnAppendsTwo ==
    outcome = "ok" =>
        /\ Len(messages) = Len(before) + 2
        /\ SubSeq(messages, 1, Len(before)) = before
        /\ messages[Len(messages) - 1] = [role |-> "user", content |-> SubmittedText]
        /\ messages[Len(messages)] =
               [role |-> "assistant", content |-> response["message"]["content"]]

\* a second exchange was completed
C2_Witness ==
    /\ outcome = "ok"
    /\ Len(messages) = 5
    /\ messages[4].content = "hi"

\* the inputs that are empty or consist of whitespace only
BlankPrompts == {"", " "}

\* C3: in a run that was triggered by submitting empty or whitespace-only
\* input, no step changes the transcript or the parameters and no
\* chat-completion call is made.
C3_BlankInputIsNoOp ==
    [][(event'.kind = "chat" /\ event'.prompt \in BlankPrompts) =>
           /\ messages' = messages
           /\ params' = params
           /\ chatCalls' = 0
           /\ request' = NoRequest]_vars

\* C4: the transcript, the session initialization and the chat-completion
\* calls change only in a run whose verdict is Ready, and a run that ended
\* in ServerUnreachable, ProtocolMismatch or ModelMissing takes no further
\* step.
C4_ChatOnlyWhenReady ==
    [][/\ (\/ messages' # messages
           \/ initialized' # initialized
           \/ chatCalls' > chatCalls
           \/ request' # request) => verdict = "Ready"
       /\ verdict \notin FailedVerdicts]_vars

\* a run of a session that had chatted before ended in a failed verdict
C4_Witness ==
    /\ verdict \in FailedVerdicts
    /\ pc = "stopped"
    /\ Len(messages) > 1

\* C5: when ollama.list() returned a model list, the verdict is Ready if and
\* only if some entry has 'model' or 'name' equal to deepseek-r1:1.5b, and
\* ModelMissing otherwise.
C5_ReadyIffModelListed ==
    (pc \in {"phase3", "stopped"} /\ "models" \in DOMAIN server_status) =>
        LET models == server_status["models"]
            listed == \E i \in 1..Len(models) : \E f \in {"model", "name"} :
                          /\ f \in DOMAIN models[i]
                          /\ models[i][f] = "deepseek-r1:1.5b"
        IN  /\ listed => verdict = "Ready"
            /\ ~listed => verdict = "ModelMissing"

\* the model is listed by its 'name' field only
C5_Witness ==
    /\ pc = "phase3"
    /\ verdict = "Ready"
    /\ server_status = [models |-> <<[name |-> "deepseek-r1:1.5b"]>>]

----------------------------------------------------------------------------
(* Properties of the runs of the script *)

C7_ResetYieldsSingleGreeting ==
    [][(pc = "sidebar" /\ event.kind = "clear") =>
           /\ Len(messages') = 1
           /\ messages'[1].role = "assistant"
           /\ messages'[1].content = "How can I help you with coding today?"
           /\ pc' = "start"]_vars

\* the button was pressed and st.rerun() has started the next run, which
\* alone starts an initialized session with no widget event
C7_Witness ==
    /\ pc = "start"
    /\ initialized
    /\ event = NoEvent
    /\ Len(messages) = 1
    /\ params["num_predict"] = 2048

\* the documented range of each parameter (floats scaled by 100)
InDocumentedRange(name, value) ==
    CASE name = "temperature" -> value \in 0..100
      [] name = "top_p" -> value \in 10..100
      [] name = "num_predict" -> value \in 128..2048
      [] name = "repeat_penalty" -> value \in 100..200

\* C8: a run triggered by moving the slider of one parameter stores a value
\* inside that parameter's documented range, changes no other parameter and
\* never changes the transcript; all four parameters of an initialized
\* session are within their ranges.
C8_UpdateParameterInRangeAndFramed ==
    [][/\ initialized' =>
              \A n \in ParamNames : InDocumentedRange(n, params'[n])
       /\ (pc = "sidebar" /\ event.kind = "slider") =>
              /\ params'[event.name] = event.value
              /\ \A n \in ParamNames \ {event.name} : params'[n] = params[n]
       /\ event'.kind = "slider" => messages' = messages]_vars

\* top_p was moved to the low end of its slider after an exchange
C8_Witness ==
    /\ pc = "idle"
    /\ event = [kind |-> "slider", name |-> "top_p", value |-> 10]
    /\ params["top_p"] = 10
    /\ params["temperature"] = 100
    /\ Len(messages) = 3

\* C9: a completion response without 'message', or without 'content' in
\* it, makes the turn fail, adds no assistant entry and leaves the transcript
\* as it was when the turn was submitted.
C9_MalformedResponseFailsTurn ==
    (/\ "unbound" \notin DOMAIN response
     /\ \/ "message" \notin DOMAIN response
        \/ "content" \notin DOMAIN response["message"]) =>
        /\ outcome = "failed"
        /\ messages = before
        /\ messages[Len(messages)].role = "assistant"
        /\ pc = "idle"

\* the response had a 'message' without 'content'
C9_Witness ==
    /\ response = [message |-> [role |-> "assistant"]]
    /\ outcome = "failed"
    /\ Len(messages) = 3

\* C10: no retries.  A run makes at most one ollama.chat call, a finished
\* turn has made exactly one whether it succeeded or failed, a failed call
\* is not followed by another one, and after ollama.list() failed the run
\* makes no further ollama.list() call.
C10_NoRetries ==
    [][/\ chatCalls' <= 1
       /\ outcome' # "none" => chatCalls' = 1
       /\ pc = "chatting" => chatCalls' = chatCalls
       /\ listCalls' <= 1
       /\ verdict = "ServerUnreachable" => listCalls' = listCalls]_vars

\* ollama.chat raised and the run ended after that one call
C10_Witness ==
    /\ outcome = "failed"
    /\ response = NoResponse
    /\ chatCalls = 1
    /\ pc = "idle"

----------------------------------------------------------------------------
(* Properties settled on the recorded history *)

\* C11: a failed turn ends with the script finished and the chat input
\* rendered (idle, no call in flight, a prompt can be submitted), and when
\* the next run is a turn that succeeds, the transcript is the one the failed
\* turn was submitted on followed by the new user message and its reply.
C11_SessionUsableAfterFailedTurn ==
    /\ outcome = "failed" =>
           /\ pc = "idle"
           /\ request = NoRequest
           /\ ENABLED InteractTracked([kind |-> "chat", prompt |-> "hi"])
    /\ (failedBefore # <<>> /\ outcome = "ok") =>
           messages = failedBefore \o
               <<[role |-> "user", content |-> SubmittedText],
                 [role |-> "assistant", content |-> response["message"]["content"]]>>

\* a turn succeeded right after a turn that had failed on a transcript with
\* one completed exchange
C11_Witness ==
    /\ outcome = "ok"
    /\ Len(failedBefore) = 3
    /\ Len(messages) = 5

----------------------------------------------------------------------------
(* Properties of the order of the availability check *)

\* C13: the check goes through its steps in order and stops at the first
\* failure.  From the start of a run the only steps are: ollama.list()
\* raises, which gives ServerUnreachable and ends the run with no response
\* bound; or it returns, which binds the response and gives no verdict yet.
\* The next step gives ProtocolMismatch when the response has no 'models'
\* (even when it names the model under another key), and otherwise
\* ModelMissing or Ready, which only a response with 'models' gets.  A
\* finished check has exactly one of the four verdicts.
C13_CheckStepsInOrder ==
    [][/\ pc = "start" =>
              \/ /\ verdict' = "ServerUnreachable"
                 /\ pc' = "stopped"
                 /\ server_status' = NoStatus
              \/ /\ verdict' = NoneVal
                 /\ pc' = "phase2"
                 /\ server_status' # NoStatus
       /\ pc = "phase2" =>
              /\ server_status' = server_status
              /\ "models" \notin DOMAIN server_status =>
                     verdict' = "ProtocolMismatch" /\ pc' = "stopped"
              /\ "models" \in DOMAIN server_status =>
                     \/ verdict' = "ModelMissing" /\ pc' = "stopped"
                     \/ verdict' = "Ready" /\ pc' = "phase3"
       /\ pc' \notin {"start", "phase2"} =>
              verdict' \in {"Ready", "ServerUnreachable", "ProtocolMismatch",
                            "ModelMissing"}
       /\ verdict # NoneVal /\ pc' # "start" => verdict' = verdict]_vars

\* the response named the required model under a key other than 'models'
\* and the run stopped on the shape of the response
C13_Witness ==
    /\ pc = "stopped"
    /\ verdict = "ProtocolMismatch"
    /\ server_status = [tags |-> <<[name |-> "deepseek-r1:1.5b"]>>]
    /\ Len(messages) = 3

----------------------------------------------------------------------------
(* Properties of the request and of the greeting *)

\* C14: the ollama.chat call in flight carries the transcript as it stands,
\* entry by entry: the transcript the turn was submitted on, which begins
\* with the seeded greeting, followed by the new user message as its last
\* entry; with it go the current values of the four parameters, the model
\* deepseek-r1:1.5b and stream=False.
C14_RequestCarriesTranscriptAndParams ==
    pc = "chatting" =>
        /\ request["messages"] = messages
        /\ request["messages"] =
               Append(before, [role |-> "user", content |-> SubmittedText])
        /\ request["messages"][1] \in
               {[role |-> "assistant", content |-> "How can I help you today?"],
                [role |-> "assistant",
                 content |-> "How can I help you with coding today?"]}
        /\ DOMAIN request["options"] =
               {"temperature", "top_p", "num_predict", "repeat_penalty"}
        /\ \A n \in ParamNames : request["options"][n] = params[n]
        /\ request["model"] = "deepseek-r1:1.5b"
        /\ request["stream"] = FALSE

\* a second turn is in flight with parameters the user had changed
C14_Witness ==
    /\ pc = "chatting"
    /\ Len(request["messages"]) = 4
    /\ request["options"]["top_p"] = 10
    /\ request["options"]["num_predict"] = 2048

\* C15 as stated: the transcript that "Clear Chat History" stores equals the
\* transcript initialize_session() stores.
C15_ResetEqualsInitialTranscript ==
    [][(pc = "sidebar" /\ event.kind = "clear") =>
           messages' = <<AssistantMessage(INIT_GREETING)>>]_vars


\* C16: neither "Clear Chat History" nor a turn, successful or failed,
\* changes a parameter: in an initialized session the parameters change
\* only in a run that a slider triggered.
C16_ResetAndTurnKeepParameters ==
    [][(initialized /\ event'.kind # "slider") => params' = params]_vars

\* a turn was completed with every parameter away from its default
C16_Witness ==
    /\ pc = "idle"
    /\ outcome = "ok"
    /\ params = [temperature |-> 100, top_p |-> 10, num_predict |-> 2048,
                 repeat_penalty |-> 100]

----------------------------------------------------------------------------
(* Properties of the shape of the transcript *)

Greetings == {"How can I help you today?", "How can I help you with coding today?"}

\* C17: whenever no ollama.chat call is in flight the transcript has odd
\* length, begins with the assistant greeting and alternates assistant and
\* user entries, so that it ends with an assistant entry.
C17_TranscriptAlternates ==
    (initialized /\ pc # "chatting") =>
        /\ Len(messages) % 2 = 1
        /\ messages[1] \in {[role |-> "assistant", content |-> g] : g \in Greetings}
        /\ \A i \in 1..Len(messages) :
               messages[i].role = IF i % 2 = 1 THEN "assistant" ELSE "user"
        /\ messages[Len(messages)].role = "assistant"

\* a turn failed after a reset and a completed exchange
C17_Witness ==
    /\ pc = "idle"
    /\ outcome = "failed"
    /\ Len(messages) = 3
    /\ messages[1].content = "How can I help you with coding today?"

\* C18: once the session is initialized the transcript is never empty and
\* its first entry is an assistant entry, also while a call is in flight;
\* and the rollback of a turn removes exactly the last entry of a transcript
\* of at least two entries, and that entry is a user entry.
C18_RollbackRemovesOnlyUserMessage ==
    [][/\ initialized' =>
              /\ Len(messages') >= 1
              /\ messages'[1].role = "assistant"
       /\ (pc = "chatting" /\ outcome' = "failed") =>
              /\ Len(messages) >= 2
              /\ messages[Len(messages)].role = "user"
              /\ messages' = SubSeq(messages, 1, Len(messages) - 1)]_vars

\* a turn on the shortest transcript was rolled back: the greeting is left
C18_Witness ==
    /\ pc = "idle"
    /\ outcome = "failed"
    /\ Len(messages) = 1
    /\ before = messages

----------------------------------------------------------------------------
(* src/app/utils.py: validate_model_available(model_name).                 *)
(* probe is the state of one call and of the model server it talks to:     *)
(* the server is reachable or not and has a set of models installed.       *)

\* the names bound at module level in utils.py: the file has the def and
\* no import
UTILS_GLOBALS == {"validate_model_available"}

\* ollama.show(name) returns, instead of raising, for an installed model of
\* a reachable server
ShowReturns(p) == p.reachable /\ p.model_name \in p.installed

InitProbe ==
    /\ pc = "start"
    /\ event = NoEvent
    /\ server_status = NoStatus
    /\ verdict = NoneVal
    /\ initialized = FALSE
    /\ messages = <<>>
    /\ params = NoParams
    /\ request = NoRequest
    /\ listCalls = 0
    /\ chatCalls = 0
    /\ response = NoResponse
    /\ before = <<>>
    /\ outcome = "none"
    /\ failedBefore = <<>>
    /\ probe \in {[pc |-> "idle", model_name |-> NoneVal, result |-> "none",
                   reachable |-> b, installed |-> I] :
                      b \in BOOLEAN, I \in SUBSET ModelNames}

main == <<pc, event, server_status, verdict, initialized, messages, params,
          request, listCalls, chatCalls, response, before, outcome, failedBefore>>

\* validate_model_available(name) is called
ProbeCall(name) ==
    /\ probe.pc = "idle"
    /\ probe' = [probe EXCEPT !.pc = "try", !.model_name = name, !.result = "none"]
    /\ UNCHANGED main

\* the try block: evaluating `ollama.show` looks the name ollama up in the
\* globals of utils.py and raises NameError when it is not bound there;
\* otherwise the call returns, and the function returns True, or raises
ProbeTry ==
    /\ probe.pc = "try"
    /\ IF "ollama" \notin UTILS_GLOBALS
       THEN probe' = [probe EXCEPT !.pc = "except"]
       ELSE IF ShowReturns(probe)
            THEN probe' = [probe EXCEPT !.pc = "idle", !.result = "True"]
            ELSE probe' = [probe EXCEPT !.pc = "except"]
    /\ UNCHANGED main

\* the bare except: return False
ProbeExcept ==
    /\ probe.pc = "except"
    /\ probe' = [probe EXCEPT !.pc = "idle", !.result = "False"]
    /\ UNCHANGED main

NextProbe ==
    \/ \E name \in ModelNames : ProbeCall(name)
    \/ ProbeTry
    \/ ProbeExcept

SpecProbe == InitProbe /\ [][NextProbe]_vars

\* C19 as stated: validate_model_available never raises, and a call that
\* has returned has returned True exactly when the server is reachable and
\* shows the model, and False otherwise.
C19_ProbeTrueIffShowSucceeds ==
    /\ probe.result \in {"none", "True", "False"}
    /\ (probe.pc = "idle" /\ probe.result # "none") =>
           (probe.result = "True" <=> ShowReturns(probe))

====
